---- MODULE Spec2Model ----
(***************************************************************************)
(* The order command/projection pipeline of medisupply-backend:            *)
(*   Command Intake  -> [command topic] -> Command Handler -> write store  *)
(*   -> [event topic] -> Projection Handler -> read-model store            *)
(*   <- Query Service (+ cache).                                           *)
(* Identifiers (uuid4) are modelled as naturals, amounts as integers,      *)
(* timestamps as clock readings tagged with their representation.          *)
(***************************************************************************)
EXTENDS Integers, Sequences, FiniteSets, TLC

\* ------------------------------------------------------------------ bounds
MaxRequests == 2
MaxLines == 2
MaxDeliveries == 3
MaxEventDeliveries == 2
MaxTicks == 2
MaxPageSize == 2

\* ---------------------------------------------------------------- inputs
\* None and a present value (a query's .first(), an optional field)
None == <<>>
Some(x) == <<x>>

\* a falsy identifier: an id or numero_orden that is absent from a message
NoId == 0

\* the 8 hex characters str(uuid4())[:8] can give: a random draw, which may
\* repeat an earlier draw of the same day
Numeros == {1, 2}

\* the i-th line of a request: (qty 2, price 10), (qty 3, price 5), ...
LineItem(i) ==
  [ id_producto |-> i, cantidad |-> i + 1, precio_unitario |-> 15 - 5 * i ]

DetallesChoices == { [ i \in 1..n |-> LineItem(i) ] : n \in 0..MaxLines }

\* a total the client may put in the request body next to the schema's fields
ClientTotals == {0, 35}

\* the request body as the client sends it
RequestBodies ==
  [ detalles : DetallesChoices, id_cliente : {7}, id_vendedor : {8},
    id_bodega_origen : {9}, creado_por : {10}, valor_total : ClientTotals ]

VARIABLES
  intake,            \* calls of Command Intake's create_order, in order
  cmdTopic,          \* command messages published, in order
  hproc,             \* deliveries of a command message to handle_order
  ordenes,           \* table "ordenes" of the write store
  detalles_ordenes,  \* table "detalles_ordenes" of the write store
  evtTopic,          \* order-created events published, in order
  projections,       \* table "order_projections" of the read-model store
  pproc,             \* deliveries of an event to handle_order_created_event
  cache,             \* the Redis keys order:<id>
  lastQuery,         \* the latest call of the Query Service and its response
  filled,            \* per order id, when a get_order last answered from the
                     \* store with no invalidate since (history)
  scan,              \* a client reading the pages of GET /orders/ in turn
  now                \* the clock, in seconds

vars == <<intake, cmdTopic, hproc, ordenes, detalles_ordenes, evtTopic,
          projections, pproc, cache, lastQuery, filled, scan, now>>

\* what the command side leaves alone
querySide == <<projections, pproc, cache, lastQuery, filled, scan, now>>

\* ------------------------------------------------------------- sequences
RECURSIVE SumSeq(_)
SumSeq(s) == IF s = <<>> THEN 0 ELSE Head(s) + SumSeq(Tail(s))

Range(s) == { s[i] : i \in DOMAIN s }

\* query(...).filter(...).first(): the first of the selected rows, or None
First(table, selected) ==
  IF selected = {}
  THEN None
  ELSE Some(table[CHOOSE i \in selected : \A j \in selected : i <= j])

\* filter(Orden.id == id) and filter(Orden.numero_orden == numero_orden)
ById(table, id) == { i \in DOMAIN table : table[i].id = id }
ByNumero(table, numero_orden) ==
  { i \in DOMAIN table : table[i].numero_orden = numero_orden }

\* ------------------------------------------------------- Command Intake
\* CrearOrdenSchema + model_dump(): only the schema's fields survive
model_dump(body) ==
  [ detalles |-> body.detalles, id_cliente |-> body.id_cliente,
    id_vendedor |-> body.id_vendedor,
    id_bodega_origen |-> body.id_bodega_origen,
    creado_por |-> body.creado_por ]

\* how a publish to the command topic can end: acknowledged; failed before
\* the topic took the message; or taken by the topic while future.result()
\* raised (deadline or connection lost on the acknowledgement)
Published == "published"
PublishOutcomes == {Published, "not_sent", "unacknowledged"}

\* PubSubService.publish_create_order_command: the topic it leaves and the
\* boolean it returns; every exception is turned into False
publish_create_order_command(order_data, outcome) ==
  [ topic |-> IF outcome = "not_sent" THEN cmdTopic
              ELSE Append(cmdTopic, order_data),
    result |-> outcome = Published ]

\* OrderService.create_order: a fresh uuid4, a random numero_orden, publish;
\* a False from the publisher fails the request
create_order(body, numero, outcome) ==
  /\ Len(intake) < MaxRequests
  /\ LET id == Len(intake) + 1
         order_data == model_dump(body) @@ [ id |-> id, numero_orden |-> numero ]
         published == publish_create_order_command(order_data, outcome)
     IN /\ cmdTopic' = published.topic
        /\ intake' = Append(intake,
             [ body |-> body,
               assigned |-> [ id |-> id, numero_orden |-> numero ],
               status |-> IF published.result THEN "ok" ELSE "HTTP_500",
               result |-> IF published.result
                          THEN [ id |-> id, numero_orden |-> numero ]
                          ELSE [ id |-> NoId, numero_orden |-> NoId ] ])
  /\ UNCHANGED <<hproc, ordenes, detalles_ordenes, evtTopic, querySide>>

\* ------------------------------------------------------ Command Handler
\* DetalleOrden.__init__
DetalleOrden(id_orden, detalle) ==
  [ id_orden |-> id_orden,
    id_producto |-> detalle.id_producto,
    cantidad |-> detalle.cantidad,
    precio_unitario |-> detalle.precio_unitario,
    subtotal |-> detalle.precio_unitario * detalle.cantidad ]

\* a datetime object, and its isoformat() string
Datetime(t) == <<"datetime", t>>
IsoFormat(dt) == <<"iso", dt[2]>>

\* Orden.generar_numero_orden and uuid.uuid4() inside the order model
GeneratedId == -1

\* an order model that always generates its own numero_orden
Orden_Regenerates(id, numero_orden, estado, id_cliente, id_vendedor, id_bodega_origen, creado_por, fresh_numero) ==
  [ id |-> IF id # NoId THEN id ELSE GeneratedId,
    fecha_creacion |-> Datetime(now),
    numero_orden |-> fresh_numero,
    estado |-> estado,
    valor_total |-> 0,
    id_cliente |-> id_cliente,
    id_vendedor |-> id_vendedor,
    id_bodega_origen |-> id_bodega_origen,
    creado_por |-> creado_por ]

\* Orden.__init__; the fallbacks generate a value when none is supplied
Orden(id, numero_orden, estado, id_cliente, id_vendedor, id_bodega_origen, creado_por, fresh_numero) ==
  [ id |-> IF id # NoId THEN id ELSE GeneratedId,
    fecha_creacion |-> Datetime(now),
    numero_orden |-> IF numero_orden # NoId THEN numero_orden ELSE fresh_numero,
    estado |-> estado,
    valor_total |-> 0,
    id_cliente |-> id_cliente,
    id_vendedor |-> id_vendedor,
    id_bodega_origen |-> id_bodega_origen,
    creado_por |-> creado_por ]

\* a total that forgets the quantities
ValorTotal_PricesOnly(detalles) ==
  SumSeq([ i \in DOMAIN detalles |-> detalles[i].precio_unitario ])

\* the loop of handle_order, lines 47-61
ValorTotal(detalles) ==
  SumSeq([ i \in DOMAIN detalles |->
             detalles[i].precio_unitario * detalles[i].cantidad ])

IdleProc == [ pc |-> "idle", cmd |-> None, order |-> None, lines |-> <<>>,
              prior |-> {}, racing |-> {}, status |-> "", result |-> None ]

\* the deliveries of the command with this id that are at the given step
DeliveriesAt(id, pcs) ==
  { e \in 1..MaxDeliveries :
      /\ hproc[e].pc \in pcs
      /\ hproc[e].cmd # None
      /\ hproc[e].cmd[1].id = id }

\* a table "ordenes" whose numero_orden is not declared unique
UniqueViolation_IdOnly(order) ==
  \E i \in DOMAIN ordenes : ordenes[i].id = order.id

\* the primary key of "ordenes" and the unique constraint on numero_orden
UniqueViolation(order) ==
  \E i \in DOMAIN ordenes :
     \/ ordenes[i].id = order.id
     \/ ordenes[i].numero_orden = order.numero_orden

\* Orden.to_dict and DetalleOrden.to_dict, as publish_order_created_event
\* assembles them
DetalleToDict(l) ==
  [ id_orden |-> l.id_orden, id_producto |-> l.id_producto,
    cantidad |-> l.cantidad, precio_unitario |-> l.precio_unitario,
    subtotal |-> l.subtotal ]

RECURSIVE SelectRows(_, _)
SelectRows(table, id_orden) ==
  IF table = <<>> THEN <<>>
  ELSE IF Head(table).id_orden = id_orden
       THEN <<Head(table)>> \o SelectRows(Tail(table), id_orden)
       ELSE SelectRows(Tail(table), id_orden)

OrdenToDict(o) ==
  [ id |-> o.id, fecha_creacion |-> o.fecha_creacion,
    numero_orden |-> o.numero_orden, estado |-> o.estado,
    valor_total |-> o.valor_total, id_cliente |-> o.id_cliente,
    id_vendedor |-> o.id_vendedor, id_bodega_origen |-> o.id_bodega_origen,
    creado_por |-> o.creado_por ]

\* an event that reports the creator as the seller
OrderCreatedEvent_WrongSeller(o, lines) ==
  [ OrdenToDict(o) EXCEPT !.fecha_creacion = IsoFormat(o.fecha_creacion),
                          !.id_vendedor = o.creado_por ]
    @@ [ detalles |-> [ i \in DOMAIN lines |-> DetalleToDict(lines[i]) ] ]

\* the event payload: the order's dict plus its line items, dates as ISO-8601
OrderCreatedEvent(o, lines) ==
  [ OrdenToDict(o) EXCEPT !.fecha_creacion = IsoFormat(o.fecha_creacion) ]
    @@ [ detalles |-> [ i \in DOMAIN lines |-> DetalleToDict(lines[i]) ] ]

\* PubSubService.publish_order_created_event of the handler
publish_order_created_event(order_data, delivered) ==
  IF delivered THEN Append(evtTopic, order_data) ELSE evtTopic

\* the end of a delivery: the record returned, or the exception raised
Finish(d, status, row) ==
  hproc' = [ hproc EXCEPT ![d].pc = "done", ![d].status = status,
                          ![d].result = row ]

\* a pre-check that publishes the event of the row it found
HandleOrder_PreCheck_Republishes(d, m) ==
  /\ hproc[d].pc = "idle"
  /\ d > 1 => hproc[d - 1].pc # "idle"
  /\ m \in DOMAIN cmdTopic
  /\ LET order_data == cmdTopic[m]
         existing_order == First(ordenes, ById(ordenes, order_data.id))
     IN IF existing_order # None
        THEN /\ hproc' = [ hproc EXCEPT ![d].pc = "done", ![d].cmd = Some(order_data),
                          ![d].prior = DeliveriesAt(order_data.id, {"done"}),
                          ![d].status = "ok", ![d].result = existing_order ]
             /\ evtTopic' = publish_order_created_event(
                   OrderCreatedEvent(existing_order[1],
                     SelectRows(detalles_ordenes, existing_order[1].id)), TRUE)
        ELSE /\ UNCHANGED evtTopic
             /\ \E fresh_numero \in Numeros :
               LET order == Orden(order_data.id, order_data.numero_orden,
                                  "PENDIENTE", order_data.id_cliente,
                                  order_data.id_vendedor,
                                  order_data.id_bodega_origen,
                                  order_data.creado_por, fresh_numero)
                   detalle_orden ==
                     [ i \in DOMAIN order_data.detalles |->
                         DetalleOrden(order.id, order_data.detalles[i]) ]
                   valor_total == ValorTotal(order_data.detalles)
               IN hproc' = [ hproc EXCEPT
                     ![d].pc = "commit", ![d].cmd = Some(order_data),
                     ![d].prior = DeliveriesAt(order_data.id, {"done"}),
                     ![d].racing = DeliveriesAt(order_data.id, {"commit"}),
                     ![d].order = Some([ order EXCEPT !.valor_total = valor_total ]),
                     ![d].lines = detalle_orden ]
  /\ UNCHANGED <<intake, cmdTopic, ordenes, detalles_ordenes, querySide>>

\* handle_order, lines 26-61: the existence pre-check, then the construction
\* of the order and of its line items
HandleOrder_PreCheck(d, m) ==
  /\ hproc[d].pc = "idle"
  /\ d > 1 => hproc[d - 1].pc # "idle"
  /\ m \in DOMAIN cmdTopic
  /\ LET order_data == cmdTopic[m]
         existing_order == First(ordenes, ById(ordenes, order_data.id))
     IN IF existing_order # None
        THEN hproc' = [ hproc EXCEPT ![d].pc = "done", ![d].cmd = Some(order_data),
                          ![d].prior = DeliveriesAt(order_data.id, {"done"}),
                          ![d].status = "ok", ![d].result = existing_order ]
        ELSE \E fresh_numero \in Numeros :
               LET order == Orden(order_data.id, order_data.numero_orden,
                                  "PENDIENTE", order_data.id_cliente,
                                  order_data.id_vendedor,
                                  order_data.id_bodega_origen,
                                  order_data.creado_por, fresh_numero)
                   detalle_orden ==
                     [ i \in DOMAIN order_data.detalles |->
                         DetalleOrden(order.id, order_data.detalles[i]) ]
                   valor_total == ValorTotal(order_data.detalles)
               IN hproc' = [ hproc EXCEPT
                     ![d].pc = "commit", ![d].cmd = Some(order_data),
                     ![d].prior = DeliveriesAt(order_data.id, {"done"}),
                     ![d].racing = DeliveriesAt(order_data.id, {"commit"}),
                     ![d].order = Some([ order EXCEPT !.valor_total = valor_total ]),
                     ![d].lines = detalle_orden ]
  /\ UNCHANGED <<intake, cmdTopic, ordenes, detalles_ordenes, evtTopic, querySide>>

\* the reference columns of ordenes are nullable=False: a null in one of
\* them is rejected by the store with an IntegrityError as well
NotNullViolation(order) ==
  NoId \in { order.id_cliente, order.id_vendedor, order.id_bodega_origen,
             order.creado_por }

\* a handler that publishes the event before it commits
HandleOrder_Commit_PublishesFirst(d) ==
  /\ hproc[d].pc = "commit"
  /\ evtTopic' = publish_order_created_event(
                    OrderCreatedEvent(hproc[d].order[1], hproc[d].lines), TRUE)
  /\ IF UniqueViolation(hproc[d].order[1]) \/ NotNullViolation(hproc[d].order[1])
     THEN /\ hproc' = [ hproc EXCEPT ![d].pc = "integrity_error" ]
          /\ UNCHANGED <<ordenes, detalles_ordenes>>
     ELSE /\ ordenes' = Append(ordenes, hproc[d].order[1])
          /\ detalles_ordenes' = detalles_ordenes \o hproc[d].lines
          /\ hproc' = [ hproc EXCEPT ![d].pc = "done", ![d].status = "ok",
                                     ![d].result = hproc[d].order ]
  /\ UNCHANGED <<intake, cmdTopic, querySide>>

\* a handler that commits the line items on their own, before the order
HandleOrder_Commit_LinesFirst(d) ==
  /\ hproc[d].pc = "commit"
  /\ detalles_ordenes' = detalles_ordenes \o hproc[d].lines
  /\ IF UniqueViolation(hproc[d].order[1]) \/ NotNullViolation(hproc[d].order[1])
     THEN /\ hproc' = [ hproc EXCEPT ![d].pc = "integrity_error" ]
          /\ UNCHANGED ordenes
     ELSE /\ ordenes' = Append(ordenes, hproc[d].order[1])
          /\ hproc' = [ hproc EXCEPT ![d].pc = "publish" ]
  /\ UNCHANGED <<intake, cmdTopic, evtTopic, querySide>>

\* handle_order, lines 62-63: add and commit, one transaction for the order
\* and its line items; a constraint violation raises IntegrityError
HandleOrder_Commit(d) ==
  /\ hproc[d].pc = "commit"
  /\ IF UniqueViolation(hproc[d].order[1]) \/ NotNullViolation(hproc[d].order[1])
     THEN /\ hproc' = [ hproc EXCEPT ![d].pc = "integrity_error" ]
          /\ UNCHANGED <<ordenes, detalles_ordenes>>
     ELSE /\ ordenes' = Append(ordenes, hproc[d].order[1])
          /\ detalles_ordenes' = detalles_ordenes \o hproc[d].lines
          /\ hproc' = [ hproc EXCEPT ![d].pc = "publish" ]
  /\ UNCHANGED <<intake, cmdTopic, evtTopic, querySide>>

\* handle_order, lines 64-66: refresh, publish the event, return the order; the
\* result of the publish is not looked at, an exception of the publisher is
\* not caught (only IntegrityError is) and ends the delivery
HandleOrder_Publish(d, delivered) ==
  /\ hproc[d].pc = "publish"
  /\ LET order == First(ordenes, ById(ordenes, hproc[d].order[1].id))
         lines == SelectRows(detalles_ordenes, order[1].id)
     IN /\ evtTopic' = publish_order_created_event(
                          OrderCreatedEvent(order[1], lines), delivered)
        /\ IF delivered
           THEN Finish(d, "ok", order)
           ELSE \E raised \in BOOLEAN :
                  IF raised THEN Finish(d, "PublishError", None)
                  ELSE Finish(d, "ok", order)
  /\ UNCHANGED <<intake, cmdTopic, ordenes, detalles_ordenes, querySide>>

\* handle_order when the store fails (connection lost, statement timeout) in
\* the add and commit of line 62-63, in the refresh of line 64 or in the
\* rollback and queries of lines 69-80: the exception is not an
\* IntegrityError and ends the delivery; a transaction that was not committed
\* is discarded by the store
HandleOrder_StoreFailure(d) ==
  /\ hproc[d].pc \in {"commit", "publish", "integrity_error"}
  /\ Finish(d, "OperationalError", None)
  /\ UNCHANGED <<intake, cmdTopic, ordenes, detalles_ordenes, evtTopic, querySide>>

\* a compensating path that publishes the event of the row it found
HandleOrder_IntegrityError_Republishes(d) ==
  /\ hproc[d].pc = "integrity_error"
  /\ LET order_data == hproc[d].cmd[1]
         by_id == First(ordenes, ById(ordenes, order_data.id))
         existing_order ==
           IF by_id # None THEN by_id
           ELSE First(ordenes, ByNumero(ordenes, order_data.numero_orden))
     IN IF existing_order # None
        THEN /\ Finish(d, "ok", existing_order)
             /\ evtTopic' = publish_order_created_event(
                   OrderCreatedEvent(existing_order[1],
                     SelectRows(detalles_ordenes, existing_order[1].id)), TRUE)
        ELSE /\ Finish(d, "IntegrityError", None)
             /\ UNCHANGED evtTopic
  /\ UNCHANGED <<intake, cmdTopic, ordenes, detalles_ordenes, querySide>>

\* handle_order, lines 68-86: rollback, then the compensating reads
HandleOrder_IntegrityError(d) ==
  /\ hproc[d].pc = "integrity_error"
  /\ LET order_data == hproc[d].cmd[1]
         by_id == First(ordenes, ById(ordenes, order_data.id))
         existing_order ==
           IF by_id # None THEN by_id
           ELSE First(ordenes, ByNumero(ordenes, order_data.numero_orden))
     IN IF existing_order # None
        THEN Finish(d, "ok", existing_order)
        ELSE Finish(d, "IntegrityError", None)
  /\ UNCHANGED <<intake, cmdTopic, ordenes, detalles_ordenes, evtTopic, querySide>>

\* POST / of the Command Handler: the response the caller of the consumer
\* gets; handle_command catches nothing, so an exception of handle_order is
\* answered by the framework with 500 Internal Server Error
handle_command(status) == IF status = "ok" THEN 200 ELSE 500

\* --------------------------------------------------- Projection Handler
\* json.dumps and json.loads
json_dumps(value) == <<"json", value>>
json_loads(text) == text[2]

\* a DateTime column: the ISO-8601 string of the event is stored as a timestamp
ParseIso(text) == <<"datetime", text[2]>>

\* a projection that stamps its own estado on the row
OrderProjection_OwnEstado(order_data) ==
  [ id |-> order_data.id,
    numero_orden |-> order_data.numero_orden,
    fecha_creacion |-> ParseIso(order_data.fecha_creacion),
    estado |-> "PROYECTADA",
    valor_total |-> order_data.valor_total,
    id_cliente |-> order_data.id_cliente,
    id_vendedor |-> order_data.id_vendedor,
    id_bodega_origen |-> order_data.id_bodega_origen,
    creado_por |-> order_data.creado_por,
    version |-> 1,
    detalles |-> json_dumps(order_data.detalles),
    cantidad_items |->
      SumSeq([ i \in DOMAIN order_data.detalles |->
                 order_data.detalles[i].cantidad ]) ]

\* a projection that counts lines instead of units
OrderProjection_CountsLines(order_data) ==
  [ id |-> order_data.id,
    numero_orden |-> order_data.numero_orden,
    fecha_creacion |-> ParseIso(order_data.fecha_creacion),
    estado |-> order_data.estado,
    valor_total |-> order_data.valor_total,
    id_cliente |-> order_data.id_cliente,
    id_vendedor |-> order_data.id_vendedor,
    id_bodega_origen |-> order_data.id_bodega_origen,
    creado_por |-> order_data.creado_por,
    version |-> 1,
    detalles |-> json_dumps(order_data.detalles),
    cantidad_items |-> Len(order_data.detalles) ]

\* OrderProjection.__init__ (lines 32-49) as the row reads once committed
OrderProjection(order_data) ==
  [ id |-> order_data.id,
    numero_orden |-> order_data.numero_orden,
    fecha_creacion |-> ParseIso(order_data.fecha_creacion),
    estado |-> order_data.estado,
    valor_total |-> order_data.valor_total,
    id_cliente |-> order_data.id_cliente,
    id_vendedor |-> order_data.id_vendedor,
    id_bodega_origen |-> order_data.id_bodega_origen,
    creado_por |-> order_data.creado_por,
    version |-> 1,
    detalles |-> json_dumps(order_data.detalles),
    cantidad_items |->
      SumSeq([ i \in DOMAIN order_data.detalles |->
                 order_data.detalles[i].cantidad ]) ]

\* OrderProjection.to_dict
ProjectionToDict(row) ==
  [ id |-> row.id,
    numero_orden |-> row.numero_orden,
    fecha_creacion |-> row.fecha_creacion,
    estado |-> row.estado,
    valor_total |-> row.valor_total,
    id_cliente |-> row.id_cliente,
    id_vendedor |-> row.id_vendedor,
    id_bodega_origen |-> row.id_bodega_origen,
    creado_por |-> row.creado_por,
    cantidad_items |-> row.cantidad_items,
    detalles |-> json_loads(row.detalles) ]

\* the primary key of "order_projections" and the unique numero_orden
ProjectionViolation(row) ==
  \E i \in DOMAIN projections :
     \/ projections[i].id = row.id
     \/ projections[i].numero_orden = row.numero_orden

\* OrderProjection.__init__ raises on a payload it cannot convert: uuid.UUID
\* of a missing reference id
ConstructorRaises(order_data) ==
  NoId \in { order_data.id_cliente, order_data.id_vendedor,
             order_data.id_bodega_origen, order_data.creado_por }

\* a projection handler that lets the exception through: the framework
\* answers 500
handle_order_created_event_Unhandled(k) ==
  /\ Len(pproc) < MaxEventDeliveries
  /\ k \in DOMAIN evtTopic
  /\ LET event_data == evtTopic[k]
         projection == OrderProjection(event_data)
     IN IF ConstructorRaises(event_data) \/ ProjectionViolation(projection)
        THEN /\ pproc' = Append(pproc, [ id |-> event_data.id,
                                         status |-> "HTTP_500" ])
             /\ UNCHANGED projections
        ELSE /\ projections' = Append(projections, projection)
             /\ pproc' = Append(pproc, [ id |-> event_data.id,
                                         status |-> "ok" ])
  /\ UNCHANGED <<intake, cmdTopic, hproc, ordenes, detalles_ordenes, evtTopic,
                 cache, lastQuery, filled, scan, now>>

\* a projection handler that refreshes the row it already has
handle_order_created_event_Upserts(k) ==
  /\ Len(pproc) < MaxEventDeliveries
  /\ k \in DOMAIN evtTopic
  /\ LET event_data == evtTopic[k]
         projection == OrderProjection(event_data)
     IN IF ProjectionViolation(projection)
        THEN /\ pproc' = Append(pproc, [ id |-> event_data.id,
                                         status |-> "ok" ])
             /\ projections' =
                  [ i \in DOMAIN projections |->
                      IF projections[i].id = projection.id
                      THEN [ projection EXCEPT
                               !.version = projections[i].version + 1 ]
                      ELSE projections[i] ]
        ELSE /\ projections' = Append(projections, projection)
             /\ pproc' = Append(pproc, [ id |-> event_data.id,
                                         status |-> "ok" ])
  /\ UNCHANGED <<intake, cmdTopic, hproc, ordenes, detalles_ordenes, evtTopic,
                 cache, lastQuery, filled, scan, now>>

\* handle_order_created_event: build the row, add, commit; any exception
\* becomes HTTP 400
handle_order_created_event(k) ==
  /\ Len(pproc) < MaxEventDeliveries
  /\ k \in DOMAIN evtTopic
  /\ LET event_data == evtTopic[k]
         projection == OrderProjection(event_data)
     IN IF ConstructorRaises(event_data) \/ ProjectionViolation(projection)
        THEN /\ pproc' = Append(pproc, [ id |-> event_data.id,
                                         status |-> "HTTP_400" ])
             /\ UNCHANGED projections
        ELSE /\ projections' = Append(projections, projection)
             /\ pproc' = Append(pproc, [ id |-> event_data.id,
                                         status |-> "ok" ])
  /\ UNCHANGED <<intake, cmdTopic, hproc, ordenes, detalles_ordenes, evtTopic,
                 cache, lastQuery, filled, scan, now>>

\* -------------------------------------------------- Query Service + cache
\* CacheService.__init__: default_ttl
DefaultTtl == 300

\* the order ids a client may ask for
OrderIds == 1..MaxRequests

\* str(datetime), what json.dumps(..., default=str) writes for a date
StrOf(dt) == <<"str", dt[2]>>

\* set_order, line 57: json.dumps(order_data, default=str)
Serialize(order_data) ==
  json_dumps([ order_data EXCEPT !.fecha_creacion = StrOf(order_data.fecha_creacion) ])

\* a payload json.loads cannot decode
Corrupt == <<"corrupt", 0>>
IsJson(text) == text[1] = "json"

\* redis GET of the key order:<id>
RedisGet(order_id) ==
  IF cache[order_id] # None
  THEN Some(cache[order_id][1].payload)
  ELSE None

\* redis drops every key whose TTL has elapsed at time t
Expire(c, t) ==
  [ id \in DOMAIN c |->
      IF c[id] # None /\ t >= c[id][1].expires THEN None ELSE c[id] ]

\* the failures a cache call can meet
GetFaults == {"no_client", "connection_error", "error"}
SetFaults == {"no_client", "connection_error", "serialization_error",
              "error", "not_set"}

\* a cache get_order that leaves an undecodable payload where it is
CacheGetOrder_KeepsCorrupt(order_id, fault) ==
  IF fault \in GetFaults
  THEN [ value |-> None, delete |-> FALSE, failed |-> TRUE ]
  ELSE LET cached_data == RedisGet(order_id)
       IN IF cached_data = None
          THEN [ value |-> None, delete |-> FALSE, failed |-> FALSE ]
          ELSE IF IsJson(cached_data[1])
               THEN [ value |-> Some(json_loads(cached_data[1])),
                      delete |-> FALSE, failed |-> FALSE ]
               ELSE [ value |-> None, delete |-> FALSE, failed |-> TRUE ]

\* CacheService.get_order: the value returned, and whether the key is deleted
\* on the way (JSONDecodeError, line 41)
CacheGetOrder(order_id, fault) ==
  IF fault \in GetFaults
  THEN [ value |-> None, delete |-> FALSE, failed |-> TRUE ]
  ELSE LET cached_data == RedisGet(order_id)
       IN IF cached_data = None
          THEN [ value |-> None, delete |-> FALSE, failed |-> FALSE ]
          ELSE IF IsJson(cached_data[1])
               THEN [ value |-> Some(json_loads(cached_data[1])),
                      delete |-> FALSE, failed |-> FALSE ]
               ELSE [ value |-> None, delete |-> TRUE, failed |-> TRUE ]

\* CacheService._delete_order
DeleteOrder(c, order_id) == [ c EXCEPT ![order_id] = None ]

\* a set_order that stores the key without an expiry
CacheSetOrder_NoTtl(c, order_id, order_data, fault) ==
  IF fault \in SetFaults
  THEN c
  ELSE [ c EXCEPT ![order_id] =
           Some([ payload |-> Serialize(order_data),
                  expires |-> now + 100 * DefaultTtl ]) ]

\* a set_order that stores the summary of the order instead of the record
CacheSetOrder_Summary(c, order_id, order_data, fault) ==
  IF fault \in SetFaults
  THEN c
  ELSE [ c EXCEPT ![order_id] =
           Some([ payload |-> Serialize([ id |-> order_data.id,
                                          numero_orden |-> order_data.numero_orden,
                                          fecha_creacion |-> order_data.fecha_creacion,
                                          estado |-> order_data.estado ]),
                  expires |-> now + DefaultTtl ]) ]

\* CacheService.set_order: setex with the default TTL, failures swallowed
CacheSetOrder(c, order_id, order_data, fault) ==
  IF fault \in SetFaults
  THEN c
  ELSE [ c EXCEPT ![order_id] =
           Some([ payload |-> Serialize(order_data),
                  expires |-> now + DefaultTtl ]) ]

\* a get_order that remembers a not-found answer in the cache
GetOrder_CachesNotFound(order_id, get_fault, set_fault) ==
  LET cached == CacheGetOrder(order_id, get_fault)
      c1 == IF cached.delete THEN DeleteOrder(cache, order_id) ELSE cache
      order == First(projections, ById(projections, order_id))
  IN IF cached.value # None
     THEN IF cached.value = [ id |-> order_id ]
          THEN [ status |-> "HTTP_404", record |-> None, store |-> FALSE,
                 cache |-> cache, cache_error |-> FALSE ]
          ELSE [ status |-> "ok", record |-> cached.value, store |-> FALSE,
                 cache |-> cache, cache_error |-> FALSE ]
     ELSE IF order = None
          THEN [ status |-> "HTTP_404", record |-> None, store |-> TRUE,
                 cache |-> [ c1 EXCEPT ![order_id] =
                               Some([ payload |-> json_dumps([ id |-> order_id ]),
                                      expires |-> now + DefaultTtl ]) ],
                 cache_error |-> cached.failed ]
          ELSE [ status |-> "ok", record |-> Some(ProjectionToDict(order[1])),
                 store |-> TRUE,
                 cache |-> CacheSetOrder(c1, order_id,
                                         ProjectionToDict(order[1]), set_fault),
                 cache_error |-> cached.failed \/ set_fault \in SetFaults ]

\* a get_order that gives up when a cache call fails
GetOrder_CacheFailureFatal(order_id, get_fault, set_fault) ==
  LET cached == CacheGetOrder(order_id, get_fault)
      c1 == IF cached.delete THEN DeleteOrder(cache, order_id) ELSE cache
      order == First(projections, ById(projections, order_id))
  IN IF cached.failed \/ (order # None /\ set_fault \in SetFaults)
     THEN [ status |-> "HTTP_500", record |-> None, store |-> FALSE,
            cache |-> c1, cache_error |-> TRUE ]
     ELSE IF cached.value # None
          THEN [ status |-> "ok", record |-> cached.value, store |-> FALSE,
                 cache |-> cache, cache_error |-> FALSE ]
          ELSE IF order = None
               THEN [ status |-> "HTTP_404", record |-> None, store |-> TRUE,
                      cache |-> c1, cache_error |-> FALSE ]
               ELSE [ status |-> "ok",
                      record |-> Some(ProjectionToDict(order[1])),
                      store |-> TRUE,
                      cache |-> CacheSetOrder(c1, order_id,
                                              ProjectionToDict(order[1]),
                                              set_fault),
                      cache_error |-> FALSE ]

\* OrderService.get_order of the Query Service: the response, the cache it
\* leaves, and whether the read-model store was queried
GetOrder(order_id, get_fault, set_fault) ==
  LET cached == CacheGetOrder(order_id, get_fault)
      c1 == IF cached.delete THEN DeleteOrder(cache, order_id) ELSE cache
      order == First(projections, ById(projections, order_id))
  IN IF cached.value # None
     THEN [ status |-> "ok", record |-> cached.value, store |-> FALSE,
            cache |-> cache, cache_error |-> FALSE ]
     ELSE IF order = None
          THEN [ status |-> "HTTP_404", record |-> None, store |-> TRUE,
                 cache |-> c1, cache_error |-> cached.failed ]
          ELSE [ status |-> "ok", record |-> Some(ProjectionToDict(order[1])),
                 store |-> TRUE,
                 cache |-> CacheSetOrder(c1, order_id,
                                         ProjectionToDict(order[1]), set_fault),
                 cache_error |-> cached.failed \/ set_fault \in SetFaults ]

\* the history of the key order:<id>: the time of its latest fill, or Lapsed
\* once that fill is a TTL old or older
Lapsed == -1

\* what the history says of the key: never filled or invalidated since, filled
\* less than a TTL ago, or filled a TTL ago or more
Expected(order_id) ==
  IF filled[order_id] = None THEN "absent"
  ELSE IF filled[order_id][1] # Lapsed THEN "live" ELSE "expired"

\* whether this call reads a payload that json.loads cannot decode, and if so
\* whether the cache takes the set_order that follows
Undecodable(order_id, get_fault, set_fault) ==
  IF get_fault \notin GetFaults /\ RedisGet(order_id) # None
     /\ ~IsJson(RedisGet(order_id)[1])
  THEN IF set_fault \notin SetFaults THEN "then_set" ELSE "then_not_set"
  ELSE "no"

\* GET /orders/{order_id}
get_order(order_id, get_fault, set_fault) ==
  LET r == GetOrder(order_id, get_fault, set_fault)
      row == First(projections, ById(projections, order_id))
  IN /\ cache' = r.cache
     /\ lastQuery' = Some(
          [ op |-> "get", id |-> order_id,
            status |-> r.status, record |-> r.record, store |-> r.store,
            cache_error |-> r.cache_error, row |-> row,
            expected |-> Expected(order_id),
            undecodable |-> Undecodable(order_id, get_fault, set_fault),
            after404 |-> /\ lastQuery # None
                         /\ lastQuery[1].op = "get"
                         /\ lastQuery[1].id = order_id
                         /\ lastQuery[1].status = "HTTP_404" ])
     /\ filled' = IF r.store /\ r.status = "ok"
                  THEN [ filled EXCEPT ![order_id] =
                           IF r.cache_error THEN None ELSE Some(now) ]
                  ELSE filled
     /\ UNCHANGED <<intake, cmdTopic, hproc, ordenes, detalles_ordenes, evtTopic,
                    projections, pproc, scan, now>>

\* OrderService.invalidate_order_cache
invalidate_order_cache(order_id) ==
  /\ cache' = DeleteOrder(cache, order_id)
  /\ lastQuery' = Some(
       [ op |-> "invalidate", id |-> order_id,
         status |-> "ok", record |-> None, store |-> FALSE,
         cache_error |-> FALSE, row |-> None,
         expected |-> Expected(order_id), undecodable |-> "no",
         after404 |-> FALSE ])
  /\ filled' = [ filled EXCEPT ![order_id] = None ]
  /\ UNCHANGED <<intake, cmdTopic, hproc, ordenes, detalles_ordenes, evtTopic,
                 projections, pproc, scan, now>>

\* a stored payload is damaged outside the service
CorruptPayload(order_id) ==
  /\ RedisGet(order_id) # None
  /\ IsJson(RedisGet(order_id)[1])
  /\ cache' = [ cache EXCEPT ![order_id] =
                  Some([ cache[order_id][1] EXCEPT !.payload = Corrupt ]) ]
  /\ UNCHANGED <<intake, cmdTopic, hproc, ordenes, detalles_ordenes, evtTopic,
                 projections, pproc, lastQuery, filled, scan, now>>

\* time passes: a second, or one second less than the TTL
TickSteps == {1, DefaultTtl - 1}
Ticks(t) == (t \div (DefaultTtl - 1)) + (t % (DefaultTtl - 1))

Tick(step) ==
  /\ Ticks(now + step) <= MaxTicks
  /\ now' = now + step
  /\ cache' = Expire(cache, now')
  /\ filled' = [ id \in DOMAIN filled |->
                   IF filled[id] # None /\ filled[id][1] # Lapsed
                      /\ now' - filled[id][1] >= DefaultTtl
                   THEN Some(Lapsed) ELSE filled[id] ]
  /\ UNCHANGED <<intake, cmdTopic, hproc, ordenes, detalles_ordenes, evtTopic,
                 projections, pproc, lastQuery, scan>>

\* ------------------------------------------------- list_orders, count_orders
Estados == {"PENDIENTE", "CANCELADA"}

\* "if estado:" - a filter value that is None or the empty string is no filter
Truthy(text) == text # None /\ text[1] # ""

\* filters whose upper date bound is exclusive
Matches_ExclusiveHasta(row, estado, desde, hasta) ==
  /\ Truthy(estado) => row.estado = estado[1]
  /\ desde # None => row.fecha_creacion[2] >= desde[1]
  /\ hasta # None => row.fecha_creacion[2] < hasta[1]

\* the filters of list_orders and count_orders (lines 86-93, 129-136)
Matches(row, estado, desde, hasta) ==
  /\ Truthy(estado) => row.estado = estado[1]
  /\ desde # None => row.fecha_creacion[2] >= desde[1]
  /\ hasta # None => row.fecha_creacion[2] <= hasta[1]

Selected(estado, desde, hasta) ==
  { i \in DOMAIN projections : Matches(projections[i], estado, desde, hasta) }

\* ORDER BY fecha_creacion DESC: the orders in which the database may return
\* the selected rows; rows of equal fecha_creacion come in any order
Orderings(rows) ==
  { ord \in [ 1..Cardinality(rows) -> rows ] :
      /\ \A a, b \in DOMAIN ord : a # b => ord[a] # ord[b]
      /\ \A a, b \in DOMAIN ord :
           a < b => projections[ord[a]].fecha_creacion[2]
                      >= projections[ord[b]].fecha_creacion[2] }

\* OrderService.list_orders: offset(skip).limit(limit) of the ordered rows
ListOrders(ord, skip, limit) ==
  LET n == IF Len(ord) - skip < limit THEN Len(ord) - skip ELSE limit
  IN [ i \in 1..(IF n < 0 THEN 0 ELSE n) |->
         ProjectionToDict(projections[ord[skip + i]]) ]

\* OrderService.count_orders
CountOrders(estado, desde, hasta) == Cardinality(Selected(estado, desde, hasta))

\* the router's total_pages (order_router.py, line 51)
TotalPages(total, page_size) ==
  IF total > 0 THEN (total + page_size - 1) \div page_size ELSE 0

\* GET /orders/?estado=&page=&page_size= as a client pages through the list:
\* page 1 first, then each next page up to total_pages
list_orders(estado, page, page_size, ord) ==
  /\ page_size \in 1..MaxPageSize
  /\ \/ scan = None /\ page = 1
     \/ /\ scan # None
        /\ estado = scan[1].estado
        /\ page_size = scan[1].page_size
        /\ page = Len(scan[1].pages) + 1
        /\ page <= scan[1].total_pages
  /\ ord \in Orderings(Selected(estado, None, None))
  /\ LET skip == (page - 1) * page_size
         orders == ListOrders(ord, skip, page_size)
         total == CountOrders(estado, None, None)
     IN scan' = Some([ estado |-> estado, page_size |-> page_size,
                       pages |-> (IF scan = None THEN <<>> ELSE scan[1].pages)
                                   \o << [ i \in DOMAIN orders |-> orders[i].id ] >>,
                       total |-> total,
                       total_pages |-> TotalPages(total, page_size),
                       rows |-> IF scan = None THEN Len(projections)
                                ELSE scan[1].rows ])
  /\ UNCHANGED <<intake, cmdTopic, hproc, ordenes, detalles_ordenes, evtTopic,
                 projections, pproc, cache, lastQuery, filled, now>>

\* the values a client may pass as filters
EstadoFilters == { None, Some(""), Some("PENDIENTE"), Some("CANCELADA") }
DateFilters == { None, Some(1) }

\* OrderService.list_orders and count_orders called with the same filters
OrderService_list_orders(estado, desde, hasta, skip, limit, ord) ==
  /\ ord \in Orderings(Selected(estado, desde, hasta))
  /\ lastQuery' = Some(
       [ op |-> "list", estado |-> estado, desde |-> desde, hasta |-> hasta,
         skip |-> skip, limit |-> limit,
         orders |-> ListOrders(ord, skip, limit),
         count |-> CountOrders(estado, desde, hasta) ])
  /\ UNCHANGED <<intake, cmdTopic, hproc, ordenes, detalles_ordenes, evtTopic,
                 projections, pproc, cache, filled, scan, now>>

\* ------------------------------------------------------- specifications
Init ==
  /\ intake = <<>>
  /\ cmdTopic = <<>>
  /\ hproc = [ d \in 1..MaxDeliveries |-> IdleProc ]
  /\ ordenes = <<>>
  /\ detalles_ordenes = <<>>
  /\ evtTopic = <<>>
  /\ projections = <<>>
  /\ pproc = <<>>
  /\ cache = [ id \in OrderIds |-> None ]
  /\ lastQuery = None
  /\ filled = [ id \in OrderIds |-> None ]
  /\ scan = None
  /\ now = 0

\* request bodies that differ in their lines only
PlainBodies == { body \in RequestBodies : body.valor_total = 0 }

\* one request body, for the specifications about scheduling
SampleBodies == { body \in PlainBodies : Len(body.detalles) = MaxLines }

\* no delivery of a command is under way
Quiet == \A e \in 1..MaxDeliveries : hproc[e].pc \in {"idle", "done"}

NoFault == "none"

\* the Command Handler under concurrent deliveries
NextHandler ==
  \/ \E body \in SampleBodies, numero \in Numeros : create_order(body, numero, Published)
  \/ \E d \in 1..MaxDeliveries, m \in 1..MaxRequests : HandleOrder_PreCheck(d, m)
  \/ \E d \in 1..MaxDeliveries : HandleOrder_Commit(d)
  \/ \E d \in 1..MaxDeliveries : HandleOrder_Publish(d, TRUE)
  \/ \E d \in 1..MaxDeliveries : HandleOrder_IntegrityError(d)

SpecHandler == Init /\ [][NextHandler]_vars

\* the pipeline from Command Intake to the read-model store, one command
\* delivery at a time
Pipeline(bodies) ==
  \/ \E body \in bodies, numero \in Numeros : create_order(body, numero, Published)
  \/ \E d \in 1..MaxDeliveries, m \in 1..MaxRequests :
       Quiet /\ HandleOrder_PreCheck(d, m)
  \/ \E d \in 1..MaxDeliveries : HandleOrder_Commit(d)
  \/ \E d \in 1..MaxDeliveries : HandleOrder_Publish(d, TRUE)
  \/ \E d \in 1..MaxDeliveries : HandleOrder_IntegrityError(d)
  \/ \E k \in 1..MaxRequests : handle_order_created_event(k)

Next == Pipeline(SampleBodies)

Spec == Init /\ [][Next]_vars

\* the Command Handler alone, one delivery at a time, over every request body
NextTotals ==
  \/ \E body \in RequestBodies, numero \in Numeros : create_order(body, numero, Published)
  \/ \E d \in 1..MaxDeliveries, m \in 1..MaxRequests :
       Quiet /\ HandleOrder_PreCheck(d, m)
  \/ \E d \in 1..MaxDeliveries : HandleOrder_Commit(d)
  \/ \E d \in 1..MaxDeliveries : HandleOrder_Publish(d, TRUE)
  \/ \E d \in 1..MaxDeliveries : HandleOrder_IntegrityError(d)

SpecTotals == Init /\ [][NextTotals]_vars

\* this event has not been delivered to the Projection Handler yet
Undelivered(k) ==
  k \in DOMAIN evtTopic => \A j \in DOMAIN pproc : pproc[j].id # evtTopic[k].id

\* the pipeline when every command and every event is delivered once, the
\* commands in the order of their publication
Feed(bodies) ==
  \/ \E body \in bodies, numero \in Numeros : create_order(body, numero, Published)
  \/ \E m \in 1..MaxRequests :
       m <= MaxDeliveries /\ Quiet /\ HandleOrder_PreCheck(m, m)
  \/ \E d \in 1..MaxDeliveries : HandleOrder_Commit(d)
  \/ \E d \in 1..MaxDeliveries : HandleOrder_Publish(d, TRUE)
  \/ \E d \in 1..MaxDeliveries : HandleOrder_IntegrityError(d)
  \/ \E k \in 1..MaxRequests : Undelivered(k) /\ handle_order_created_event(k)

\* the pipeline and GET /orders/{id}
NextEndToEnd ==
  \/ Feed(PlainBodies)
  \/ \E id \in OrderIds : get_order(id, NoFault, NoFault)

SpecEndToEnd == Init /\ [][NextEndToEnd]_vars

\* the pipeline fed by a Command Intake whose publish can fail
NextIntake ==
  \/ Pipeline(PlainBodies)
  \/ \E body \in PlainBodies, numero \in Numeros,
        outcome \in PublishOutcomes \ {Published} :
       create_order(body, numero, outcome)

SpecIntake == Init /\ [][NextIntake]_vars

\* both stores under concurrent command deliveries and replayed events; an
\* event delivery reads and writes nothing a command delivery touches, so it
\* is taken between command deliveries
NextStores ==
  \/ NextHandler
  \/ \E k \in 1..MaxRequests : Quiet /\ handle_order_created_event(k)

SpecStores == Init /\ [][NextStores]_vars

\* the read-model store under replayed events and every call of the Query
\* Service
NextReadModel ==
  \/ Feed(SampleBodies)
  \/ \E k \in 1..MaxRequests : handle_order_created_event(k)
  \/ \E id \in OrderIds : get_order(id, NoFault, NoFault)
  \/ \E id \in OrderIds : invalidate_order_cache(id)
  \/ \E estado \in Estados, page \in 1..MaxRequests, page_size \in 1..MaxPageSize :
       \E ord \in Orderings(Selected(Some(estado), None, None)) :
         list_orders(Some(estado), page, page_size, ord)

SpecReadModel == Init /\ [][NextReadModel]_vars

\* the Query Service's cache while time passes: the orders are placed before
\* the clock starts, reads and invalidations are spread over time
NextCache ==
  \/ now = 0 /\ Feed(SampleBodies)
  \/ \E id \in OrderIds : get_order(id, NoFault, NoFault)
  \/ \E id \in OrderIds : invalidate_order_cache(id)
  \/ \E step \in TickSteps : Tick(step)

SpecCache == Init /\ [][NextCache]_vars

\* the Query Service's cache when cache calls fail
NextCacheFaults ==
  \/ Feed(SampleBodies)
  \/ \E id \in OrderIds, gf \in GetFaults \cup {NoFault},
        sf \in SetFaults \cup {NoFault} : get_order(id, gf, sf)
  \/ \E id \in OrderIds : CorruptPayload(id)

SpecCacheFaults == Init /\ [][NextCacheFaults]_vars

\* a client paging through GET /orders/
NextPages ==
  \/ Pipeline(SampleBodies)
  \/ Tick(1)
  \/ \E estado \in Estados, page \in 1..MaxRequests, page_size \in 1..MaxPageSize :
       \E ord \in Orderings(Selected(Some(estado), None, None)) :
         list_orders(Some(estado), page, page_size, ord)

SpecPages == Init /\ [][NextPages]_vars

\* the pipeline when the publish of the order-created event can fail
NextPublishFailure ==
  \/ Pipeline(SampleBodies)
  \/ \E d \in 1..MaxDeliveries : HandleOrder_Publish(d, FALSE)

SpecPublishFailure == Init /\ [][NextPublishFailure]_vars

\* the id of a message that Command Intake did not build
ForeignId == MaxRequests + 1

\* POST / of the Command Handler takes any JSON message: a command of
\* another producer, with a null id_cliente
ForeignCommand(numero) ==
  /\ \A m \in DOMAIN cmdTopic : cmdTopic[m].id # ForeignId
  /\ \E body \in SampleBodies :
       cmdTopic' = Append(cmdTopic,
         model_dump([ body EXCEPT !.id_cliente = NoId ])
           @@ [ id |-> ForeignId, numero_orden |-> numero ])
  /\ UNCHANGED <<intake, hproc, ordenes, detalles_ordenes, evtTopic, querySide>>

\* POST / of the Projection Handler takes any JSON message: an event of
\* another producer, with a null id_cliente
ForeignEvent(numero) ==
  /\ \A k \in DOMAIN evtTopic : evtTopic[k].id # ForeignId
  /\ \E body \in SampleBodies :
       LET order == Orden(ForeignId, numero, "PENDIENTE", NoId,
                          body.id_vendedor, body.id_bodega_origen,
                          body.creado_por, numero)
           lines == [ i \in DOMAIN body.detalles |->
                        DetalleOrden(ForeignId, body.detalles[i]) ]
       IN evtTopic' = Append(evtTopic, OrderCreatedEvent(order, lines))
  /\ UNCHANGED <<intake, cmdTopic, hproc, ordenes, detalles_ordenes, querySide>>

\* the Command Handler when a command of another producer arrives
NextForeign ==
  \/ \E body \in SampleBodies, numero \in Numeros : create_order(body, numero, Published)
  \/ \E numero \in Numeros : ForeignCommand(numero)
  \/ \E d \in 1..MaxDeliveries, m \in 1..ForeignId :
       Quiet /\ HandleOrder_PreCheck(d, m)
  \/ \E d \in 1..MaxDeliveries : HandleOrder_Commit(d)
  \/ \E d \in 1..MaxDeliveries : HandleOrder_Publish(d, TRUE)
  \/ \E d \in 1..MaxDeliveries : HandleOrder_IntegrityError(d)

SpecForeign == Init /\ [][NextForeign]_vars

\* the Projection Handler under replayed events and an event of another
\* producer
NextForeignEvents ==
  \/ Feed(SampleBodies)
  \/ \E numero \in Numeros : ForeignEvent(numero)
  \/ \E k \in 1..ForeignId : handle_order_created_event(k)

SpecForeignEvents == Init /\ [][NextForeignEvents]_vars

\* no delivery has failed on the store so far
StoreUp == \A e \in 1..MaxDeliveries : hproc[e].status # "OperationalError"

\* the Command Handler under concurrent deliveries and one store failure, at
\* any step of any delivery
NextStoreFailure ==
  \/ NextHandler
  \/ \E d \in 1..MaxDeliveries : StoreUp /\ HandleOrder_StoreFailure(d)

SpecStoreFailure == Init /\ [][NextStoreFailure]_vars

\* the cache against the Projection Handler: the commands are handled before
\* the clock starts; event deliveries (replays included), reads, invalidations
\* and TTL expiry interleave freely
NextFresh ==
  \/ \E body \in SampleBodies, numero \in Numeros :
       now = 0 /\ create_order(body, numero, Published)
  \/ \E m \in 1..MaxRequests :
       now = 0 /\ m <= MaxDeliveries /\ Quiet /\ HandleOrder_PreCheck(m, m)
  \/ \E d \in 1..MaxDeliveries : now = 0 /\ HandleOrder_Commit(d)
  \/ \E d \in 1..MaxDeliveries : now = 0 /\ HandleOrder_Publish(d, TRUE)
  \/ \E d \in 1..MaxDeliveries : now = 0 /\ HandleOrder_IntegrityError(d)
  \/ \E k \in 1..MaxRequests : Quiet /\ handle_order_created_event(k)
  \/ \E id \in OrderIds : get_order(id, NoFault, NoFault)
  \/ \E id \in OrderIds : invalidate_order_cache(id)
  \/ Tick(DefaultTtl - 1)

SpecFresh == Init /\ [][NextFresh]_vars

\* orders placed at different times, then one listing with any filters, taken
\* when no delivery is under way: a listing changes nothing in the store, so
\* what it returns depends on the rows of the store it is called on only
NextListing ==
  \/ lastQuery = None /\ Feed(SampleBodies)
  \/ lastQuery = None /\ Tick(1)
  \/ /\ lastQuery = None /\ Quiet /\ Len(pproc) = Len(evtTopic)
     /\ \E estado \in EstadoFilters, desde \in DateFilters, hasta \in DateFilters,
           skip \in 0..MaxPageSize, limit \in 1..MaxPageSize :
          \E ord \in Orderings(Selected(estado, desde, hasta)) :
            OrderService_list_orders(estado, desde, hasta, skip, limit, ord)

SpecListing == Init /\ [][NextListing]_vars

\* ---------------------------------------------------------------- claims
Deliveries == 1..MaxDeliveries
Done(d) == hproc[d].pc = "done"
CmdOf(d) == hproc[d].cmd[1]
RowsWithId(id) == { i \in DOMAIN ordenes : ordenes[i].id = id }

\* the outcome the claims ask of two deliveries of one command: one row for
\* the command's id, and both deliveries returning a record of that identity
SameRecord(d1, d2) ==
  /\ hproc[d1].status = "ok" /\ hproc[d2].status = "ok"
  /\ hproc[d1].result # None /\ hproc[d2].result # None
  /\ hproc[d1].result[1].id = hproc[d2].result[1].id
  /\ hproc[d1].result[1].numero_orden = hproc[d2].result[1].numero_orden

\* C1: the same command delivered twice, one delivery after the other, leaves
\* exactly one order row with that id, and both deliveries return a record
\* with the same id and the same numero_orden.
C1_SequentialRedelivery ==
  \A d2 \in Deliveries : Done(d2) =>
    \A d1 \in hproc[d2].prior :
      /\ Cardinality(RowsWithId(CmdOf(d2).id)) = 1
      /\ SameRecord(d1, d2)

\* C2: two deliveries of the same command that both ran the existence
\* pre-check before either committed end with exactly one order row for
\* that id.
C2_RacingDeliveries ==
  \A d2 \in Deliveries : Done(d2) =>
    \A d1 \in hproc[d2].racing :
      Done(d1) => Cardinality(RowsWithId(CmdOf(d2).id)) = 1

\* C3: no delivery of handle_order ends in an error; each delivery resolves
\* to the single order row of the command's id.
C3_NoDeliveryFails ==
  \A d \in Deliveries : Done(d) =>
    /\ hproc[d].status = "ok"
    /\ hproc[d].result # None
    /\ hproc[d].result[1].id = CmdOf(d).id
    /\ Cardinality(RowsWithId(CmdOf(d).id)) = 1

\* the commands whose numero_orden no other command carries
NumeroIsOwn(cmd) ==
  \A m \in DOMAIN cmdTopic :
    cmdTopic[m].numero_orden = cmd.numero_orden => cmdTopic[m].id = cmd.id

C1_WhenNumeroIsOwn ==
  \A d2 \in Deliveries : Done(d2) /\ NumeroIsOwn(CmdOf(d2)) =>
    \A d1 \in hproc[d2].prior :
      /\ Cardinality(RowsWithId(CmdOf(d2).id)) = 1
      /\ SameRecord(d1, d2)

C3_WhenNumeroIsOwn ==
  \A d \in Deliveries : Done(d) /\ NumeroIsOwn(CmdOf(d)) =>
    /\ hproc[d].status = "ok"
    /\ hproc[d].result # None
    /\ hproc[d].result[1].id = CmdOf(d).id
    /\ Cardinality(RowsWithId(CmdOf(d).id)) = 1

\* the request that Command Intake answered with this id
RequestOf(id) == intake[CHOOSE k \in DOMAIN intake : intake[k].result.id = id]

RECURSIVE SumOfProducts(_)
SumOfProducts(lines) ==
  IF lines = <<>> THEN 0
  ELSE Head(lines).precio_unitario * Head(lines).cantidad
         + SumOfProducts(Tail(lines))

RECURSIVE SumOfSubtotals(_)
SumOfSubtotals(rows) ==
  IF rows = <<>> THEN 0 ELSE Head(rows).subtotal + SumOfSubtotals(Tail(rows))

ProjectionsWithId(id) == { i \in DOMAIN projections : projections[i].id = id }

\* C5: every delivery of an order-created event to the Projection Handler
\* succeeds, and the read-model store holds exactly one projection row for the
\* order id of each delivered event.
C5_ReplayedEventSucceeds ==
  \A j \in DOMAIN pproc :
    /\ pproc[j].status = "ok"
    /\ Cardinality(ProjectionsWithId(pproc[j].id)) = 1

\* the store side of C5, which the primary key does give
C5_NoDuplicateProjection ==
  \A j \in DOMAIN pproc : Cardinality(ProjectionsWithId(pproc[j].id)) = 1

\* some published command carries this id and this numero_orden
FromCommand(id, numero_orden) ==
  \E m \in DOMAIN cmdTopic :
    cmdTopic[m].id = id /\ cmdTopic[m].numero_orden = numero_orden

\* C10: the order a delivery constructs, and every order row, order-created
\* event and projection row, carries the id and the numero_orden of its
\* command; nothing downstream of Command Intake generates either.
C10_IdentityCarried ==
  /\ \A d \in Deliveries : hproc[d].order # None =>
       /\ hproc[d].order[1].id = CmdOf(d).id
       /\ hproc[d].order[1].numero_orden = CmdOf(d).numero_orden
  /\ \A i \in DOMAIN ordenes :
       FromCommand(ordenes[i].id, ordenes[i].numero_orden)
  /\ \A k \in DOMAIN evtTopic :
       FromCommand(evtTopic[k].id, evtTopic[k].numero_orden)
  /\ \A i \in DOMAIN projections :
       FromCommand(projections[i].id, projections[i].numero_orden)

\* a command delivered a second time after its order was projected
C10_Witness ==
  \E d1, d2 \in Deliveries :
    /\ d1 # d2 /\ Done(d1) /\ Done(d2)
    /\ CmdOf(d1).id = CmdOf(d2).id
    /\ d1 \in hproc[d2].prior
    /\ ProjectionsWithId(CmdOf(d1).id) # {}

\* the latest call of the Query Service is a get_order
LastGet == lastQuery # None /\ lastQuery[1].op = "get"

\* C6: get_order(id) for a projected order is cache-aside: when the key was
\* never filled, was invalidated, or was filled a TTL ago or more, the store is
\* queried, its record returned and written to the cache with the default TTL;
\* when the key was filled less than a TTL ago the cached record is returned
\* and the store is not queried.
C6_CacheAside ==
  (LastGet /\ lastQuery[1].row # None) =>
    LET q == lastQuery[1]
        record == ProjectionToDict(q.row[1])
    IN /\ q.status = "ok"
       /\ q.expected = "live" =>
            /\ ~q.store
            /\ q.record = Some(json_loads(Serialize(record)))
       /\ q.expected \in {"absent", "expired"} =>
            /\ q.store
            /\ q.record = Some(record)
            /\ Expected(q.id) = "live" =>
                 cache[q.id] = Some([ payload |-> Serialize(record),
                                      expires |-> filled[q.id][1] + DefaultTtl ])
            /\ Expected(q.id) = "expired" => cache[q.id] = None

\* a get_order that found the key expired and went back to the store
C6_Witness ==
  /\ LastGet
  /\ lastQuery[1].expected = "expired"
  /\ lastQuery[1].store
  /\ lastQuery[1].status = "ok"

\* a get_order served from the cache, the store untouched
C6_HitReached ==
  /\ LastGet
  /\ lastQuery[1].expected = "live"
  /\ ~lastQuery[1].store
  /\ now > 0

\* C7: a get_order whose cache read or cache write failed answers as the
\* read-model store alone determines: the store's record when the row exists,
\* 404 when it does not; no call answers anything but a record or 404.
C7_CacheNeverFatal ==
  LastGet =>
    LET q == lastQuery[1]
    IN /\ q.status \in {"ok", "HTTP_404"}
       /\ q.cache_error =>
            /\ q.store
            /\ q.row # None =>
                 /\ q.status = "ok"
                 /\ q.record = Some(ProjectionToDict(q.row[1]))
            /\ q.row = None => q.status = "HTTP_404" /\ q.record = None

\* a get_order of a projected order whose cache call failed
C7_Witness ==
  /\ LastGet
  /\ lastQuery[1].cache_error
  /\ lastQuery[1].row # None
  /\ lastQuery[1].status = "ok"

\* the ids the pages of the scan returned, in the order returned
RECURSIVE Concat(_)
Concat(pages) ==
  IF pages = <<>> THEN <<>> ELSE Head(pages) \o Concat(Tail(pages))

\* the client read every page and no row was added meanwhile
ScanComplete ==
  /\ scan # None
  /\ Len(scan[1].pages) >= scan[1].total_pages
  /\ scan[1].rows = Len(projections)

MatchingIds(estado) ==
  { projections[i].id : i \in Selected(estado, None, None) }

\* C8: the total of count_orders equals the number of rows the pages 1 to
\* total_pages of list_orders return together, and these pages return every
\* matching row exactly once.
C8_PagesPartition ==
  ScanComplete =>
    LET ids == Concat(scan[1].pages)
    IN /\ scan[1].total = Len(ids)
       /\ \A a, b \in DOMAIN ids : a # b => ids[a] # ids[b]
       /\ Range(ids) = MatchingIds(scan[1].estado)

\* the rows that match have pairwise different fecha_creacion
DatesDiffer(estado) ==
  \A i, j \in Selected(estado, None, None) :
    i # j => projections[i].fecha_creacion # projections[j].fecha_creacion

\* C8 where no two matching rows share a fecha_creacion
C8_WhenDatesDiffer ==
  (ScanComplete /\ DatesDiffer(scan[1].estado)) =>
    LET ids == Concat(scan[1].pages)
    IN /\ scan[1].total = Len(ids)
       /\ \A a, b \in DOMAIN ids : a # b => ids[a] # ids[b]
       /\ Range(ids) = MatchingIds(scan[1].estado)

\* the command of this request ran to the end and its event was projected
Delivered(id) ==
  /\ \E d \in Deliveries : Done(d) /\ CmdOf(d).id = id
  /\ \E k \in DOMAIN evtTopic : evtTopic[k].id = id
  /\ \E j \in DOMAIN pproc : pproc[j].id = id

\* the record get_order owes to this accepted request
Owed(k, record) ==
  LET body == intake[k].body
  IN /\ record.id = intake[k].result.id
     /\ record.numero_orden = intake[k].result.numero_orden
     /\ Len(record.detalles) = Len(body.detalles)
     /\ \A i \in DOMAIN body.detalles :
          /\ record.detalles[i].id_producto = body.detalles[i].id_producto
          /\ record.detalles[i].cantidad = body.detalles[i].cantidad
     /\ record.cantidad_items =
          SumSeq([ i \in DOMAIN body.detalles |-> body.detalles[i].cantidad ])
     /\ record.valor_total = SumOfProducts(body.detalles)

\* C9: once the command of an accepted request has been handled and its
\* order-created event delivered to the Projection Handler, get_order(id)
\* answers with the numero_orden Command Intake returned, one line per
\* submitted line, cantidad_items the sum of the quantities and valor_total
\* the sum of price times quantity; so did the latest get_order that answered.
C9_EndToEnd ==
  \A k \in DOMAIN intake :
    LET id == intake[k].result.id
        r == GetOrder(id, NoFault, NoFault)
    IN /\ Delivered(id) => r.status = "ok" /\ Owed(k, r.record[1])
       /\ (LastGet /\ lastQuery[1].id = id /\ lastQuery[1].status = "ok")
            => Owed(k, lastQuery[1].record[1])

\* a two-line request, delivered, then read back twice: from the store and
\* from the cache
C9_Witness ==
  \E k \in DOMAIN intake :
    /\ Len(intake[k].body.detalles) = 2
    /\ Delivered(intake[k].result.id)
    /\ LastGet
    /\ lastQuery[1].id = intake[k].result.id
    /\ lastQuery[1].status = "ok"
    /\ ~lastQuery[1].store

\* C11: no two rows of the write store share an id or a numero_orden, and no
\* two rows of the read-model store share an id or a numero_orden.
C11_UniqueKeys ==
  /\ \A i, j \in DOMAIN ordenes :
       i # j => /\ ordenes[i].id # ordenes[j].id
                /\ ordenes[i].numero_orden # ordenes[j].numero_orden
  /\ \A i, j \in DOMAIN projections :
       i # j => /\ projections[i].id # projections[j].id
                /\ projections[i].numero_orden # projections[j].numero_orden

\* two orders stored and projected, one of them after two deliveries of its
\* command raced past the pre-check
C11_Witness ==
  /\ Len(ordenes) = 2
  /\ Len(projections) = 2
  /\ \E d \in Deliveries : Done(d) /\ hproc[d].racing # {}

\* C12: every order a delivery constructs has estado PENDIENTE, and every
\* order row, every order-created event and every projection row has estado
\* PENDIENTE in every reachable state.
C12_AlwaysPendiente ==
  /\ \A d \in Deliveries :
       hproc[d].order # None => hproc[d].order[1].estado = "PENDIENTE"
  /\ \A i \in DOMAIN ordenes : ordenes[i].estado = "PENDIENTE"
  /\ \A k \in DOMAIN evtTopic : evtTopic[k].estado = "PENDIENTE"
  /\ \A i \in DOMAIN projections : projections[i].estado = "PENDIENTE"

\* an order stored and projected, its command redelivered and its event
\* replayed
C12_Witness ==
  /\ ordenes # <<>>
  /\ projections # <<>>
  /\ \E d \in Deliveries : Done(d) /\ hproc[d].prior # {}
  /\ \E j \in DOMAIN pproc : pproc[j].status = "HTTP_400"

\* C13: no command message, no order row and no projection row has zero line
\* items, because Command Intake accepts only requests with a non-empty list.
C13_NonEmptyLines ==
  /\ \A m \in DOMAIN cmdTopic : cmdTopic[m].detalles # <<>>
  /\ \A i \in DOMAIN ordenes :
       SelectRows(detalles_ordenes, ordenes[i].id) # <<>>
  /\ \A i \in DOMAIN projections :
       json_loads(projections[i].detalles) # <<>>

\* the requests that Command Intake failed
Failed == { k \in DOMAIN intake : intake[k].status = "HTTP_500" }

\* this id was delivered to the Command Handler, or has an order row
Entered(id) ==
  \/ \E d \in Deliveries : hproc[d].cmd # None /\ CmdOf(d).id = id
  \/ RowsWithId(id) # {}

\* C14: when create_order fails the request because the publish is reported
\* as failed, no command with that id is ever delivered to the Command Handler
\* and no order row with that id ever exists.
C14_FailedNeverEnters ==
  \A k \in Failed : ~Entered(intake[k].assigned.id)

\* C14 for the failures after which the topic does not hold the message
C14_WhenNotOnTopic ==
  \A k \in Failed :
    (\A m \in DOMAIN cmdTopic : cmdTopic[m].id # intake[k].assigned.id)
      => ~Entered(intake[k].assigned.id)

\* the command of this request has been handled to the end
Handled(k) ==
  \E d \in Deliveries : Done(d) /\ CmdOf(d).id = intake[k].assigned.id

\* C15: every call of create_order assigns an id and a numero_orden that no
\* earlier call used; two accepted requests with the same payload, once
\* handled, have two distinct order rows.
C15_FreshIdentity ==
  \A k1, k2 \in DOMAIN intake : k1 < k2 =>
    /\ intake[k1].assigned.id # intake[k2].assigned.id
    /\ intake[k1].assigned.numero_orden # intake[k2].assigned.numero_orden
    /\ ( /\ intake[k1].body = intake[k2].body
         /\ intake[k1].status = "ok" /\ intake[k2].status = "ok"
         /\ Handled(k1) /\ Handled(k2) )
       => /\ RowsWithId(intake[k1].assigned.id) # {}
          /\ RowsWithId(intake[k2].assigned.id) # {}

\* the part of C15 about the id
C15_FreshIds ==
  \A k1, k2 \in DOMAIN intake :
    k1 < k2 => intake[k1].assigned.id # intake[k2].assigned.id

\* C16: a get_order(id) that finds no cache entry and no projection row
\* answers not-found and leaves no cache entry for the id; the get_order(id)
\* that follows it once the projection row exists reads the store and returns
\* the record.
C16_NotFoundNotCached ==
  LastGet =>
    LET q == lastQuery[1]
    IN /\ q.row = None =>
            /\ q.status = "HTTP_404" /\ q.record = None /\ q.store
            /\ cache[q.id] = None
       /\ (q.after404 /\ q.row # None) =>
            /\ q.status = "ok" /\ q.store
            /\ q.record = Some(ProjectionToDict(q.row[1]))

\* a not-found answer, then the projection row, then the record
C16_Witness ==
  /\ LastGet
  /\ lastQuery[1].after404
  /\ lastQuery[1].status = "ok"
  /\ lastQuery[1].record # None

\* C17: a projection row is created once per order id and then stays as it
\* is: every step keeps every existing row unchanged and in place, and a step
\* that adds a row adds one row, for an id that had none.
C17_RowsFrozen ==
  [][ /\ \A i \in DOMAIN projections :
           i \in DOMAIN projections' /\ projections'[i] = projections[i]
      /\ Len(projections') > Len(projections) =>
           /\ Len(projections') = Len(projections) + 1
           /\ ProjectionsWithId(projections'[Len(projections')].id) = {} ]_vars

\* a projected order after a replayed event, a get_order that filled the
\* cache, an invalidate and a listing
C17_Witness ==
  /\ projections # <<>>
  /\ \E j \in DOMAIN pproc : pproc[j].status = "HTTP_400"
  /\ \E id \in OrderIds : cache[id] # None
  /\ lastQuery # None /\ lastQuery[1].op = "invalidate"
  /\ scan # None /\ scan[1].total > 0

\* C18: each projection row has an order row of the same id in the write
\* store; its numero_orden, estado, valor_total and client, seller, warehouse
\* and creator ids equal that order's, its detalles has one entry per
\* persisted line item, and its cantidad_items is the sum of the persisted
\* quantities.
C18_ProjectionMirrorsOrder ==
  \A i \in DOMAIN projections :
    LET p == projections[i]
        found == First(ordenes, ById(ordenes, p.id))
    IN /\ found # None
       /\ LET o == found[1]
              lines == SelectRows(detalles_ordenes, o.id)
          IN /\ p.numero_orden = o.numero_orden
             /\ p.estado = o.estado
             /\ p.valor_total = o.valor_total
             /\ p.id_cliente = o.id_cliente
             /\ p.id_vendedor = o.id_vendedor
             /\ p.id_bodega_origen = o.id_bodega_origen
             /\ p.creado_por = o.creado_por
             /\ Len(json_loads(p.detalles)) = Len(lines)
             /\ p.cantidad_items =
                  SumSeq([ j \in DOMAIN lines |-> lines[j].cantidad ])

\* two orders of two lines each, both projected
C18_Witness ==
  /\ Len(projections) = 2
  /\ \A i \in DOMAIN projections :
       /\ Len(json_loads(projections[i].detalles)) = 2
       /\ projections[i].cantidad_items = 5
       /\ RowsWithId(projections[i].id) # {}

\* C19: an order-created event is published only after the transaction that
\* inserted its order row has committed: every event on the event topic has an
\* order row with its id in the write store.
C19_EventAfterCommit ==
  \A k \in DOMAIN evtTopic : RowsWithId(evtTopic[k].id) # {}

\* one order committed and published, a second committed and not yet
\* published
C19_Witness ==
  /\ Len(evtTopic) = 1
  /\ Len(ordenes) = 2
  /\ \E d \in Deliveries :
       hproc[d].pc = "publish" /\ hproc[d].order[1].id = ordenes[2].id

\* the deliveries that built an order and have returned
Built == { d \in Deliveries : Done(d) /\ hproc[d].order # None }

\* C20: a delivery whose insert hits a uniqueness constraint adds or changes
\* no row of the write store and publishes no event, neither in the failed
\* commit nor in the compensating reads that follow it.
C20_CompensationOnlyReads ==
  [][ \A d \in Deliveries :
        ( /\ hproc'[d] # hproc[d]
          /\ \/ hproc[d].pc = "integrity_error"
             \/ hproc'[d].pc = "integrity_error" )
        => /\ ordenes' = ordenes
           /\ detalles_ordenes' = detalles_ordenes
           /\ evtTopic' = evtTopic ]_vars

\* some delivery built an order and returned without publishing an event
C20_Witness ==
  /\ Cardinality(Built) > Len(evtTopic)
  /\ \A d \in Deliveries : hproc[d].pc \in {"idle", "done"}

\* the event of this order is on the event topic
EventsWithId(id) == { k \in DOMAIN evtTopic : evtTopic[k].id = id }

\* the order is committed, the delivery that committed it has ended, and its
\* event is not on the topic: the publish of the event failed
Unpublished(id) ==
  /\ RowsWithId(id) # {}
  /\ EventsWithId(id) = {}
  /\ \A d \in Deliveries :
       hproc[d].pc = "publish" => hproc[d].order[1].id # id

\* C21: once the publish of an order's event has failed after the commit, the
\* order row stays, no later step (a redelivery of the command included)
\* publishes the event, and no projection row of that id is ever built.
C21_LostEventStaysLost ==
  [][ \A id \in OrderIds :
        Unpublished(id)
        => /\ ProjectionsWithId(id) = {}
           /\ Unpublished(id)'
           /\ ProjectionsWithId(id)' = {} ]_vars

\* the publish failed, and a redelivery of the command has returned the row
\* from the pre-check
C21_Witness ==
  \E d \in Deliveries :
    /\ Done(d) /\ hproc[d].status = "ok" /\ hproc[d].order = None
    /\ hproc[d].result # None
    /\ hproc[d].result[1].id = CmdOf(d).id
    /\ Unpublished(CmdOf(d).id)

\* C22: a delivery whose insert hits a constraint violation and that finds no
\* stored order by id or by numero_orden ends with the exception, and the
\* caller of the consumer gets a response of the 400 class.
C22_ClientErrorResponse ==
  \A d \in Deliveries :
    (Done(d) /\ hproc[d].status = "IntegrityError")
    => handle_command(hproc[d].status) \in 400..499

\* the failure does reach the caller, as an error response
C22_Propagated ==
  \A d \in Deliveries :
    (Done(d) /\ hproc[d].status = "IntegrityError")
    => /\ hproc[d].result = None
       /\ handle_command(hproc[d].status) >= 400
       /\ RowsWithId(CmdOf(d).id) = {}

C24_OrderWithItsLines ==
  /\ \A m \in DOMAIN cmdTopic :
       LET order_data == cmdTopic[m]
           lines == SelectRows(detalles_ordenes, order_data.id)
       IN IF RowsWithId(order_data.id) = {}
          THEN lines = <<>>
          ELSE /\ Len(lines) = Len(order_data.detalles)
               /\ \A i \in DOMAIN lines :
                    /\ lines[i].id_producto = order_data.detalles[i].id_producto
                    /\ lines[i].cantidad = order_data.detalles[i].cantidad
  /\ \A i \in DOMAIN detalles_ordenes :
       RowsWithId(detalles_ordenes[i].id_orden) # {}

\* one order stored with its lines, a delivery of another command that failed
\* on the store and left nothing, and a delivery that failed on a constraint
C24_Witness ==
  /\ \E d \in Deliveries :
       /\ Done(d) /\ hproc[d].status = "OperationalError"
       /\ hproc[d].lines # <<>>
       /\ RowsWithId(CmdOf(d).id) = {}
  /\ \E d \in Deliveries :
       /\ Done(d) /\ hproc[d].order # None /\ hproc[d].lines # <<>>
       /\ hproc[d].status = "ok"
       /\ RowsWithId(CmdOf(d).id) # {}
       /\ hproc[d].result[1].id = CmdOf(d).id

\* C25: an entry under order:<id> exists only if a projection row with that
\* id exists, and its value is the serialization of that row as it is now.
C25_CacheNeverStale ==
  \A id \in OrderIds :
    cache[id] # None
    => /\ ProjectionsWithId(id) # {}
       /\ \A i \in ProjectionsWithId(id) :
            cache[id][1].payload = Serialize(ProjectionToDict(projections[i]))

\* an entry filled after time has passed, while the event of its order was
\* delivered again and rejected
C25_Witness ==
  \E id \in OrderIds :
    /\ cache[id] # None
    /\ cache[id][1].expires > DefaultTtl
    /\ \E j \in DOMAIN pproc : pproc[j].id = id /\ pproc[j].status = "HTTP_400"

Wanted(q) ==
  { i \in DOMAIN projections :
      /\ (q.estado # None /\ q.estado[1] # "")
           => projections[i].estado = q.estado[1]
      /\ q.desde # None => projections[i].fecha_creacion[2] >= q.desde[1]
      /\ q.hasta # None => projections[i].fecha_creacion[2] <= q.hasta[1] }

Newer(rows, t) == { i \in rows : projections[i].fecha_creacion[2] > t }
NotOlder(rows, t) == { i \in rows : projections[i].fecha_creacion[2] >= t }

\* C27: list_orders returns records of the rows selected by the filters
\* (estado when given, fecha_creacion within desde..hasta inclusive), no row
\* twice, newest first, the rows at positions skip+1 .. skip+limit of that
\* order; count_orders is the number of the selected rows.
C27_ListIsFilteredPage ==
  [][ ( lastQuery' # lastQuery /\ lastQuery'[1].op = "list" )
      => LET q == lastQuery'[1]
             rows == Wanted(q)
             left == IF Cardinality(rows) > q.skip
                     THEN Cardinality(rows) - q.skip ELSE 0
         IN /\ q.count = Cardinality(rows)
            /\ Len(q.orders) = IF left < q.limit THEN left ELSE q.limit
            /\ \A n \in DOMAIN q.orders :
                 /\ \E i \in rows : q.orders[n] = ProjectionToDict(projections[i])
                 /\ \A k \in DOMAIN q.orders :
                      /\ n # k => q.orders[n].id # q.orders[k].id
                      /\ n < k => q.orders[n].fecha_creacion[2]
                                    >= q.orders[k].fecha_creacion[2]
                 /\ Cardinality(Newer(rows, q.orders[n].fecha_creacion[2]))
                      <= q.skip + n - 1
                 /\ Cardinality(NotOlder(rows, q.orders[n].fecha_creacion[2]))
                      >= q.skip + n ]_vars

\* a listing with both date bounds that skipped a row, returned a row created
\* on the bound, and left a stored row out
C27_Witness ==
  /\ lastQuery # None /\ lastQuery[1].op = "list"
  /\ lastQuery[1].desde # None /\ lastQuery[1].hasta # None
  /\ lastQuery[1].estado = Some("PENDIENTE")
  /\ lastQuery[1].skip = 1
  /\ Len(lastQuery[1].orders) = 1
  /\ lastQuery[1].orders[1].fecha_creacion[2] = lastQuery[1].hasta[1]
  /\ lastQuery[1].count = 2

\* C28: however the deliveries of one command interleave, the event topic
\* holds at most one order-created event per order id, and only for an order
\* that is stored: the delivery that committed the row is the only one that
\* publishes.
C28_PublishedAtMostOnce ==
  /\ \A k1, k2 \in DOMAIN evtTopic :
       evtTopic[k1].id = evtTopic[k2].id => k1 = k2
  /\ \A k \in DOMAIN evtTopic : RowsWithId(evtTopic[k].id) # {}
  /\ Len(evtTopic) <= Cardinality(Built)

\* three deliveries of one command have returned: two raced past the
\* pre-check, one found the row in the pre-check; one event for the id
C28_Witness ==
  \E d1, d2, d3 \in Deliveries :
    /\ d1 # d2
    /\ Done(d1) /\ Done(d2) /\ Done(d3)
    /\ CmdOf(d1).id = CmdOf(d2).id /\ CmdOf(d3).id = CmdOf(d1).id
    /\ hproc[d1].order # None /\ hproc[d2].order # None
    /\ hproc[d3].order = None
    /\ Cardinality(EventsWithId(CmdOf(d1).id)) = 1

\* C29: whenever handle_order returns successfully for a command, the write
\* store holds an order row with the command's id and the returned record is
\* that row, also for a command whose numero_orden is that of a stored order
\* with another id.
C29_ReturnsOwnRow ==
  \A d \in Deliveries :
    (Done(d) /\ hproc[d].status = "ok")
    => /\ hproc[d].result # None
       /\ \E i \in RowsWithId(CmdOf(d).id) : hproc[d].result[1] = ordenes[i]

\* the same for the commands whose numero_orden no other command carries
C29_WhenNumeroIsOwn ==
  \A d \in Deliveries :
    (Done(d) /\ hproc[d].status = "ok" /\ NumeroIsOwn(CmdOf(d)))
    => /\ hproc[d].result # None
       /\ \E i \in RowsWithId(CmdOf(d).id) : hproc[d].result[1] = ordenes[i]

\* a get_order answered from the cache, for an order that is in the store
LastHit ==
  /\ LastGet
  /\ lastQuery[1].status = "ok" /\ ~lastQuery[1].store
  /\ lastQuery[1].row # None

\* C30: the record get_order returns on a cache hit equals, field by field and
\* in its date fields too, the record a miss returns from the store.
C30_HitEqualsMiss ==
  LastHit => lastQuery[1].record = Some(ProjectionToDict(lastQuery[1].row[1]))

\* the two records agree in every field that is not a date
C30_ExceptDates ==
  LastHit =>
    /\ lastQuery[1].record # None
    /\ [ lastQuery[1].record[1] EXCEPT !.fecha_creacion = None ]
         = [ ProjectionToDict(lastQuery[1].row[1]) EXCEPT !.fecha_creacion = None ]
    /\ lastQuery[1].record[1].fecha_creacion
         = StrOf(lastQuery[1].row[1].fecha_creacion)

====
